---------------------------- MODULE Spec2Model ----------------------------
(***************************************************************************)
(* Model of the NYC complaint ingest-and-clean pipeline:                   *)
(*   - clean_2024_data (src/clean_data.py): one pass over the raw          *)
(*     collection complaints_2024 that rebuilds complaints_2024_clean;     *)
(*   - download_2024_crime_data_robust (src/scripts/download_2024_robust   *)
(*     .py): the resumable paginated download into complaints_2024.        *)
(*                                                                         *)
(* Documents are records of field values.  A field value is tagged:        *)
(*   [t |-> "absent"]  the key is not in the document (dict.get -> None)   *)
(*   [t |-> "str"]     text, v is its sequence of characters               *)
(*   [t |-> "num"]     a number, n is its value in 1/Scale units           *)
(*   [t |-> "nan"]     the float NaN                                       *)
(*   [t |-> "null"]    the key is in the document with the value None      *)
(* Coordinates are fixed-point: a number x is held as the integer          *)
(* x * Scale, exact for texts with at most FracDigits fractional digits.   *)
(***************************************************************************)
EXTENDS Integers, Sequences, FiniteSets, TLC

(***************************************************************************)
(* Bounds of the model                                                     *)
(***************************************************************************)
\* longest raw collection drawn for a clean pass
MaxRaw == 3
\* clean passes run one after the other on the same raw collection
MaxCleanRuns == 2
\* stand-in for the insert batch of 5000 (src/clean_data.py:100)
FlushSize == 2
\* fractional digits the fixed-point coordinates keep (at least 1)
FracDigits == 2
\* fields of a drawn document that may differ from a well-formed one
MaxDefects == 2
\* stand-in for the page size of 5000 (src/scripts/download_2024_robust.py:47)
batch_size == 2
\* longest remote dataset
MaxRemote == 5
\* download runs started one after the other
MaxDownloadRuns == 3
\* documents a failing insert_many may leave behind, over all runs
MaxStrayDocs == 2

(***************************************************************************)
(* Field values                                                            *)
(***************************************************************************)
Absent == [t |-> "absent", v |-> <<>>, n |-> 0]
Str(s) == [t |-> "str", v |-> s, n |-> 0]
Num(x) == [t |-> "num", v |-> <<>>, n |-> x]
NaN == [t |-> "nan", v |-> <<>>, n |-> 0]
Null == [t |-> "null", v |-> <<>>, n |-> 0]

\* Python truthiness of a field value, as all([...]) and `if x` see it:
\* None, "" and 0 are false; NaN and every other value are true.
Truthy(val) ==
    CASE val.t = "absent" -> FALSE
      [] val.t = "null" -> FALSE
      [] val.t = "str" -> val.v # <<>>
      [] val.t = "num" -> val.n # 0
      [] OTHER -> TRUE

(***************************************************************************)
(* float(x) of Python on the alphabet 0-9 + - . a n and the blank:         *)
(* blanks around the text are dropped, an optional sign, then either the   *)
(* word nan or digits with at most one point and at least one digit.       *)
(* A number converts to itself; None raises TypeError, any other text      *)
(* raises ValueError.                                                      *)
(***************************************************************************)
RECURSIVE Pow10(_)
Pow10(k) == IF k = 0 THEN 1 ELSE 10 * Pow10(k - 1)

Scale == Pow10(FracDigits)

Digits == <<"0", "1", "2", "3", "4", "5", "6", "7", "8", "9">>

IsDigit(c) == \E i \in 1..10 : Digits[i] = c

DigitVal(c) == (CHOOSE i \in 1..10 : Digits[i] = c) - 1

RECURSIVE LStrip(_)
LStrip(s) == IF s # <<>> /\ Head(s) = " " THEN LStrip(Tail(s)) ELSE s

RECURSIVE RStrip(_)
RStrip(s) ==
    IF s # <<>> /\ s[Len(s)] = " " THEN RStrip(SubSeq(s, 1, Len(s) - 1)) ELSE s

Strip(s) == RStrip(LStrip(s))

AllDigits(s) == \A i \in 1..Len(s) : IsDigit(s[i])

\* value of a digit string read as a whole number (the empty string is 0)
RECURSIVE DigitsVal(_)
DigitsVal(s) ==
    IF s = <<>> THEN 0
    ELSE 10 * DigitsVal(SubSeq(s, 1, Len(s) - 1)) + DigitVal(s[Len(s)])

\* position of the first "." in s, or 0
PointAt(s) ==
    IF \E i \in 1..Len(s) : s[i] = "."
    THEN CHOOSE i \in 1..Len(s) : s[i] = "." /\ \A j \in 1..(i - 1) : s[j] # "."
    ELSE 0

\* unsigned decimal text -> [ok, n]
ParseUnsigned(s) ==
    LET p == PointAt(s)
        ip == IF p = 0 THEN s ELSE SubSeq(s, 1, p - 1)
        fp == IF p = 0 THEN <<>> ELSE SubSeq(s, p + 1, Len(s))
    IN  IF /\ AllDigits(ip)
           /\ AllDigits(fp)
           /\ Len(ip) + Len(fp) > 0
           /\ Len(fp) <= FracDigits
        THEN [ok |-> TRUE,
              n |-> DigitsVal(ip) * Scale + DigitsVal(fp) * Pow10(FracDigits - Len(fp))]
        ELSE [ok |-> FALSE, n |-> 0]

\* float(val): [ok |-> FALSE] stands for ValueError / TypeError
ParseFloat(val) ==
    IF val.t = "num" THEN [ok |-> TRUE, nan |-> FALSE, n |-> val.n]
    ELSE IF val.t = "nan" THEN [ok |-> TRUE, nan |-> TRUE, n |-> 0]
    ELSE IF val.t # "str" THEN [ok |-> FALSE, nan |-> FALSE, n |-> 0]
    ELSE LET s == Strip(val.v)
             signed == s # <<>> /\ Head(s) \in {"+", "-"}
             body == IF signed THEN Tail(s) ELSE s
             u == ParseUnsigned(body)
         IN  IF body = <<"n", "a", "n">>
             THEN [ok |-> TRUE, nan |-> TRUE, n |-> 0]
             ELSE IF u.ok
             THEN [ok |-> TRUE, nan |-> FALSE,
                   n |-> IF signed /\ Head(s) = "-" THEN 0 - u.n ELSE u.n]
             ELSE [ok |-> FALSE, nan |-> FALSE, n |-> 0]

\* the float a successful parse yields, as a field value
FloatValue(p) == IF p.nan THEN NaN ELSE Num(p.n)

(***************************************************************************)
(* NYC bounding box of src/clean_data.py:74, in 1/Scale degrees            *)
(***************************************************************************)
LatMin == 404 * (Scale \div 10)
LatMax == 410 * (Scale \div 10)
LonMin == 0 - 744 * (Scale \div 10)
LonMax == 0 - 736 * (Scale \div 10)

\* mutation of InNYCRange: the upper latitude bound is left out
InNYCRangeNoUpper(lat, lon) ==
    /\ ~lat.nan
    /\ ~lon.nan
    /\ LatMin <= lat.n
    /\ LonMin <= lon.n
    /\ lon.n <= LonMax

\* 40.4 <= lat <= 41.0 and -74.4 <= lon <= -73.6; every comparison with NaN
\* is false
InNYCRange(lat, lon) ==
    /\ ~lat.nan
    /\ ~lon.nan
    /\ LatMin <= lat.n
    /\ lat.n <= LatMax
    /\ LonMin <= lon.n
    /\ lon.n <= LonMax

(***************************************************************************)
(* State                                                                   *)
(***************************************************************************)
VARIABLES
    complaints_2024,        \* raw collection: sequence of documents, storage order
    complaints_2024_clean,  \* clean collection: sequence of documents
    clean_unique_index,     \* unique index on cmplnt_num exists on the clean collection
    cpc,                    \* position of clean_2024_data
    error,                  \* exception that ended clean_2024_data, or "none"
    original_count,
    seen_ids,
    records_to_insert,
    skipped_missing,
    skipped_invalid_coords,
    skipped_duplicate,
    processed,
    final_count,
    clean_runs,             \* clean passes started so far
    pass_results,           \* history: what each finished pass left behind
    flushes,                \* history: insert_many calls made by the pass
    remote,                 \* the remote dataset in its query order
    dpc,                    \* position of download_2024_crime_data_robust
    outcome,                \* how the last download run that ended did so
    existing_count,
    offset,
    total_imported,
    retry_count,
    success,
    results,
    slept,                  \* seconds of the time.sleep of the last attempt, 0 if none
    download_runs,          \* download runs started so far
    first_request,          \* history: offset of the run's first request, -1 if none
    stored_at_stop,         \* history: documents stored when the last run stopped
    page_offset,            \* history: offset when the current page was started
    page_start_count,       \* history: documents stored when the page was started
    attempts,               \* history: requests made for the current page
    insert_errors,          \* history: insert_many failures at the current page
    stray_docs,             \* history: documents left by failed insert_many calls
    insert_calls,           \* history: insert_many calls made for the current page
    run_failures            \* history: failed attempts of the current run

cleanVars ==
    <<complaints_2024_clean, clean_unique_index, cpc, error, original_count,
      seen_ids, records_to_insert, skipped_missing, skipped_invalid_coords,
      skipped_duplicate, processed, final_count, clean_runs, pass_results,
      flushes>>

downloadVars ==
    <<remote, dpc, outcome, existing_count, offset, total_imported, retry_count,
      success, results, slept, download_runs, first_request, stored_at_stop,
      page_offset, page_start_count, attempts, insert_errors, stray_docs,
      insert_calls, run_failures>>

vars == <<complaints_2024, cleanVars, downloadVars>>

(***************************************************************************)
(* Documents the raw collection is drawn from                              *)
(***************************************************************************)
Ids == {"1", "2", "3"}

GoodLat == Str(<<"4", "0", ".", "7">>)
GoodLon == Str(<<"-", "7", "3", ".", "8">>)
NullBoro == Str(<<"(", "n", "u", "l", "l", ")">>)
BadLat == Str(<<"9", "9", ".", "9">>)

\* a well-formed raw document, as the remote API returns it
RawDoc(id) ==
    [cmplnt_num |-> Str(<<id>>),
     cmplnt_fr_dt |-> Str(<<"2", "0", "2", "4">>),
     cmplnt_fr_tm |-> Str(<<"9">>),
     boro_nm |-> Str(<<"Q">>),
     latitude |-> GoodLat,
     longitude |-> GoodLon,
     ofns_desc |-> Str(<<"T">>),
     law_cat_cd |-> Str(<<"F">>)]

IdValues == {Str(<<i>>) : i \in Ids} \cup {Absent, Str(<<>>)}
TextValues(good) == {good, Absent, Str(<<>>)}
BoroValues == {Str(<<"Q">>), Absent, Str(<<>>), NullBoro}
LatValues ==
    {GoodLat, Absent, Str(<<>>), BadLat, NaN, Num(0), Num(407 * (Scale \div 10)),
     Str(<<"a">>), Str(<<"n", "a", "n">>), Str(<<" ", "4", "0", ".", "7", " ">>),
     Str(<<"4", "0", ".", "4">>), Str(<<"4", "1">>), Str(<<"4", "1", ".">>),
     Str(<<"4", "1", ".", "0", "1">>), Str(<<"4", "0", ".", "3", "9">>),
     Str(<<"+", "4", "0", ".", "7">>), Str(<<"4", "0", ".", "7", ".">>)}
LonValues ==
    {GoodLon, Absent, Str(<<>>), Str(<<"-">>), Str(<<"7", "3", ".", "8">>),
     Str(<<"-", "7", "3", ".", "6">>), Str(<<"-", "7", "4", ".", "4">>),
     Str(<<"-", "7", "3", ".", "5", "9">>), Str(<<"-", "7", "4", ".", "4", "1">>),
     Str(<<"-", "n", "a", "n">>), Str(<<"-", "-", "7", "3">>)}

\* number of fields in which doc differs from the well-formed document
Defects(doc) ==
    LET base == RawDoc("1")
    IN  Cardinality({f \in DOMAIN doc : doc[f] # base[f]})

\* every document with at most MaxDefects fields off the well-formed one
VariedDocs ==
    {doc \in [cmplnt_num : IdValues,
              cmplnt_fr_dt : TextValues(Str(<<"2", "0", "2", "4">>)),
              cmplnt_fr_tm : {Str(<<"9">>), Absent, Null, Str(<<>>)},
              boro_nm : BoroValues,
              latitude : LatValues,
              longitude : LonValues,
              ofns_desc : TextValues(Str(<<"T">>)),
              law_cat_cd : TextValues(Str(<<"F">>))] : Defects(doc) <= MaxDefects}

\* the documents long raw collections are built from: every identifier,
\* well-formed, with the borough sentinel, or with an out-of-range latitude
PlainDocs ==
    {[RawDoc(id) EXCEPT !.boro_nm = b, !.latitude = la] :
        id \in Ids, b \in {Str(<<"Q">>), NullBoro}, la \in {GoodLat, BadLat}}

SeqsUpTo(S, n) == UNION {[1..k -> S] : k \in 0..n}

RawCollections ==
    SeqsUpTo(PlainDocs, MaxRaw) \cup {<<RawDoc("1"), doc>> : doc \in VariedDocs}

(***************************************************************************)
(* clean_2024_data: the checks of one loop iteration                       *)
(***************************************************************************)
\* line 54: not all([cmplnt_id, cmplnt_dt, boro, lat_str, lon_str, ofns, law_cat])
MissingKeyFields(record) ==
    ~(/\ Truthy(record.cmplnt_num)
      /\ Truthy(record.cmplnt_fr_dt)
      /\ Truthy(record.boro_nm)
      /\ Truthy(record.latitude)
      /\ Truthy(record.longitude)
      /\ Truthy(record.ofns_desc)
      /\ Truthy(record.law_cat_cd))

\* mutation of NullBorough: the "(null)" sentinel is not tested
NullBoroughEmptyOnly(record) == record.boro_nm = Str(<<>>)

\* line 59: boro == "(null)" or boro == ""
NullBorough(record) ==
    record.boro_nm = NullBoro \/ record.boro_nm = Str(<<>>)

\* mutation of DuplicateId: the seen-set is never consulted
DuplicateIdNever(record, seen) == FALSE

\* line 64: cmplnt_id in seen_ids
DuplicateId(record, seen) == record.cmplnt_num \in seen

\* lines 69-80: the try block; TRUE when the record is skipped for its
\* coordinates (float() raised, or the pair is outside the box)
InvalidCoords(record) ==
    LET lat == ParseFloat(record.latitude)
        lon == ParseFloat(record.longitude)
    IN  ~lat.ok \/ ~lon.ok \/ ~InNYCRange(lat, lon)

\* mutation of Verdict: the borough branch skips the record without a tally
VerdictUncounted(record, seen) ==
    IF MissingKeyFields(record) THEN "missing"
    ELSE IF NullBorough(record) THEN "skipped"
    ELSE IF DuplicateId(record, seen) THEN "duplicate"
    ELSE IF InvalidCoords(record) THEN "invalid_coords"
    ELSE "accept"

\* mutation of Verdict: the coordinates are checked before the seen-set
VerdictCoordsFirst(record, seen) ==
    IF MissingKeyFields(record) THEN "missing"
    ELSE IF NullBorough(record) THEN "missing"
    ELSE IF InvalidCoords(record) THEN "invalid_coords"
    ELSE IF DuplicateId(record, seen) THEN "duplicate"
    ELSE "accept"

\* lines 53-83: which branch one iteration takes, checks in program order
Verdict(record, seen) ==
    IF MissingKeyFields(record) THEN "missing"
    ELSE IF NullBorough(record) THEN "missing"
    ELSE IF DuplicateId(record, seen) THEN "duplicate"
    ELSE IF InvalidCoords(record) THEN "invalid_coords"
    ELSE "accept"

\* mutation of SeenAfter: the identifier is noted before the checks
SeenAfterAny(seen, record, verdict) == seen \cup {record.cmplnt_num}

\* line 83: seen_ids.add(cmplnt_id), reached by an accepted record only
SeenAfter(seen, record, verdict) ==
    IF verdict = "accept" THEN seen \cup {record.cmplnt_num} ELSE seen

Midnight == Str(<<"0", "0", ":", "0", "0", ":", "0", "0">>)

\* mutation of CleanedRecord: the default replaces every empty time
CleanedRecordOrDefault(record) ==
    [cmplnt_num |-> record.cmplnt_num,
     cmplnt_fr_dt |-> record.cmplnt_fr_dt,
     cmplnt_fr_tm |-> IF Truthy(record.cmplnt_fr_tm) THEN record.cmplnt_fr_tm
                      ELSE Midnight,
     boro_nm |-> record.boro_nm,
     latitude |-> FloatValue(ParseFloat(record.latitude)),
     longitude |-> FloatValue(ParseFloat(record.longitude)),
     ofns_desc |-> record.ofns_desc,
     law_cat_cd |-> record.law_cat_cd]

\* lines 86-95: record.get('cmplnt_fr_tm', '00:00:00') applies the default
\* only when the key is absent
CleanedRecord(record) ==
    [cmplnt_num |-> record.cmplnt_num,
     cmplnt_fr_dt |-> record.cmplnt_fr_dt,
     cmplnt_fr_tm |-> IF record.cmplnt_fr_tm.t = "absent" THEN Midnight
                      ELSE record.cmplnt_fr_tm,
     boro_nm |-> record.boro_nm,
     latitude |-> FloatValue(ParseFloat(record.latitude)),
     longitude |-> FloatValue(ParseFloat(record.longitude)),
     ofns_desc |-> record.ofns_desc,
     law_cat_cd |-> record.law_cat_cd]

(***************************************************************************)
(* The clean collection as the document store keeps it                     *)
(***************************************************************************)
HasKey(coll, key) == \E i \in 1..Len(coll) : coll[i].cmplnt_num = key

DuplicateKeys(coll) ==
    \E i, j \in 1..Len(coll) : i # j /\ coll[i].cmplnt_num = coll[j].cmplnt_num

\* insert_many (ordered): documents go in one by one; with a unique index
\* the first duplicate key stops the insert and raises BulkWriteError, the
\* documents before it stay
RECURSIVE InsertMany(_, _, _)
InsertMany(coll, docs, unique) ==
    IF docs = <<>> THEN [coll |-> coll, ok |-> TRUE]
    ELSE IF unique /\ HasKey(coll, Head(docs).cmplnt_num)
    THEN [coll |-> coll, ok |-> FALSE]
    ELSE InsertMany(Append(coll, Head(docs)), Tail(docs), unique)

\* mutation of DeleteMany: the target is not cleared
DeleteManyKeeps(coll) == coll

\* line 22: delete_many({}) removes every document (indexes stay)
DeleteMany(coll) == <<>>

\* mutation of FlushDue: the buffer is written one record late
FlushDueLate(buffer) == Len(buffer) > FlushSize

\* lines 100, 105: when the buffer is written
FlushDue(buffer) == Len(buffer) >= FlushSize

(***************************************************************************)
(* clean_2024_data: steps                                                  *)
(***************************************************************************)
\* lines 18-36: count the raw collection, clear the target, reset the tallies
CleanStart ==
    /\ cpc \in {"idle", "done", "failed"}
    /\ clean_runs < MaxCleanRuns
    /\ clean_runs' = clean_runs + 1
    /\ original_count' = Len(complaints_2024)
    /\ complaints_2024_clean' = DeleteMany(complaints_2024_clean)
    /\ seen_ids' = {}
    /\ records_to_insert' = <<>>
    /\ skipped_missing' = 0
    /\ skipped_invalid_coords' = 0
    /\ skipped_duplicate' = 0
    /\ processed' = 0
    /\ final_count' = 0
    /\ error' = "none"
    /\ cpc' = "scan"
    /\ flushes' = 0
    /\ UNCHANGED <<complaints_2024, clean_unique_index, pass_results, downloadVars>>

\* lines 38-102: one iteration of the loop over source_collection.find()
CleanRecord ==
    /\ cpc = "scan"
    /\ processed < Len(complaints_2024)
    /\ LET record == complaints_2024[processed + 1]
           verdict == Verdict(record, seen_ids)
           buffer == Append(records_to_insert, CleanedRecord(record))
           ins == InsertMany(complaints_2024_clean, buffer, clean_unique_index)
       IN  /\ processed' = processed + 1
           /\ skipped_missing' =
                  IF verdict = "missing" THEN skipped_missing + 1 ELSE skipped_missing
           /\ skipped_duplicate' =
                  IF verdict = "duplicate" THEN skipped_duplicate + 1
                  ELSE skipped_duplicate
           /\ skipped_invalid_coords' =
                  IF verdict = "invalid_coords" THEN skipped_invalid_coords + 1
                  ELSE skipped_invalid_coords
           /\ seen_ids' = SeenAfter(seen_ids, record, verdict)
           /\ IF verdict # "accept"
              THEN UNCHANGED <<records_to_insert, complaints_2024_clean, cpc, error,
                               flushes>>
              ELSE IF ~FlushDue(buffer)
              THEN /\ records_to_insert' = buffer
                   /\ UNCHANGED <<complaints_2024_clean, cpc, error, flushes>>
              ELSE /\ complaints_2024_clean' = ins.coll
                   /\ flushes' = flushes + 1
                   /\ records_to_insert' = IF ins.ok THEN <<>> ELSE buffer
                   /\ cpc' = IF ins.ok THEN cpc ELSE "failed"
                   /\ error' = IF ins.ok THEN error ELSE "BulkWriteError"
    /\ UNCHANGED <<complaints_2024, clean_unique_index, original_count,
                   final_count, clean_runs, pass_results, downloadVars>>

\* lines 104-108: the loop is over; write what is left, count the result
CleanFlushRest ==
    /\ cpc = "scan"
    /\ processed = Len(complaints_2024)
    /\ LET ins == IF records_to_insert # <<>>
                  THEN InsertMany(complaints_2024_clean, records_to_insert,
                                  clean_unique_index)
                  ELSE [coll |-> complaints_2024_clean, ok |-> TRUE]
       IN  /\ complaints_2024_clean' = ins.coll
           /\ flushes' = IF records_to_insert # <<>> THEN flushes + 1 ELSE flushes
           /\ IF ins.ok
              THEN /\ final_count' = Len(ins.coll)
                   /\ cpc' = "index"
                   /\ pass_results' =
                          Append(pass_results,
                                 [clean |-> ins.coll,
                                  processed |-> processed,
                                  skipped_missing |-> skipped_missing,
                                  skipped_invalid_coords |-> skipped_invalid_coords,
                                  skipped_duplicate |-> skipped_duplicate,
                                  final_count |-> Len(ins.coll)])
                   /\ UNCHANGED error
              ELSE /\ cpc' = "failed"
                   /\ error' = "BulkWriteError"
                   /\ UNCHANGED <<final_count, pass_results>>
    /\ UNCHANGED <<complaints_2024, clean_unique_index, original_count, seen_ids,
                   records_to_insert, skipped_missing, skipped_invalid_coords,
                   skipped_duplicate, processed, clean_runs, downloadVars>>

\* lines 112-120: create_index(cmplnt_num, unique=True) and the secondary
\* indexes; building a unique index over duplicate keys raises
CleanCreateIndexes ==
    /\ cpc = "index"
    /\ IF DuplicateKeys(complaints_2024_clean)
       THEN /\ cpc' = "failed"
            /\ error' = "DuplicateKeyError"
            /\ UNCHANGED clean_unique_index
       ELSE /\ cpc' = "summary"
            /\ clean_unique_index' = TRUE
            /\ UNCHANGED error
    /\ UNCHANGED <<complaints_2024, complaints_2024_clean, original_count, seen_ids,
                   records_to_insert, skipped_missing, skipped_invalid_coords,
                   skipped_duplicate, processed, final_count, clean_runs,
                   pass_results, flushes, downloadVars>>

\* lines 122-180: the summary divides by original_count (lines 132-133),
\* then the distributions are printed and the client is closed
CleanSummary ==
    /\ cpc = "summary"
    /\ IF original_count = 0
       THEN /\ cpc' = "failed"
            /\ error' = "ZeroDivisionError"
       ELSE /\ cpc' = "done"
            /\ UNCHANGED error
    /\ UNCHANGED <<complaints_2024, complaints_2024_clean, clean_unique_index,
                   original_count, seen_ids, records_to_insert, skipped_missing,
                   skipped_invalid_coords, skipped_duplicate, processed,
                   final_count, clean_runs, pass_results, flushes, downloadVars>>

(***************************************************************************)
(* Specification of the clean pass: any raw collection, any earlier        *)
(* content of the clean collection                                         *)
(***************************************************************************)
\* what the clean collection may hold before the first pass: nothing, or
\* the leftovers of an earlier load, with or without the unique index
StaleDoc == CleanedRecord(RawDoc("1"))

EarlierCleanStates ==
    {[coll |-> <<>>, unique |-> FALSE],
     [coll |-> <<StaleDoc>>, unique |-> TRUE],
     [coll |-> <<StaleDoc, StaleDoc>>, unique |-> FALSE]}

CleanIdle ==
    /\ cpc = "idle"
    /\ error = "none"
    /\ original_count = 0
    /\ seen_ids = {}
    /\ records_to_insert = <<>>
    /\ skipped_missing = 0
    /\ skipped_invalid_coords = 0
    /\ skipped_duplicate = 0
    /\ processed = 0
    /\ final_count = 0
    /\ clean_runs = 0
    /\ pass_results = <<>>
    /\ flushes = 0

(***************************************************************************)
(* download_2024_crime_data_robust                                         *)
(***************************************************************************)
max_retries == 5

\* the remote dataset of n documents, in the order of the query
RemoteData(n) == [i \in 1..n |-> RawDoc(Digits[i + 1])]

Min(a, b) == IF a < b THEN a ELSE b

\* lines 64-71: client_api.get(limit=batch_size, offset=offset, order=...)
FetchPage(data, off, limit) ==
    IF off >= Len(data) THEN <<>>
    ELSE SubSeq(data, off + 1, Min(off + limit, Len(data)))

\* mutation of StartOffset: every run starts from the first record
StartOffsetZero(count) == 0

\* lines 25-33: where the run starts paging
StartOffset(count) == IF count > 0 THEN count ELSE 0

\* mutation of InsertedAll: the page is written twice
InsertedTwice(coll, docs) == coll \o docs \o docs

\* line 79: collection.insert_many(results) that returns normally
InsertedAll(coll, docs) == coll \o docs

\* line 79: collection.insert_many(results) that raises: the ordered bulk
\* insert stops at the failing document and the k documents before it stay
InsertedSome(coll, docs, k) == coll \o SubSeq(docs, 1, k)

\* mutation of Advance: the counters stay where they were
AdvanceStuck(n, docs) == n

\* lines 80-81: total_imported += len(results); offset += len(results)
Advance(n, docs) == n + Len(docs)

\* mutation of WaitTime: the same wait after every failure
WaitTimeFlat(retries) == 5

\* line 97: wait_time = retry_count * 5
WaitTime(retries) == retries * 5

\* mutation of LastPage: only the empty page ends the data
LastPageEmptyOnly(docs) == docs = <<>>

\* line 85 and line 109: the page that ends the data
LastPage(docs) == docs = <<>> \/ Len(docs) < batch_size

\* mutation of PageDelay: the pause follows every stored page
PageDelayAlways(docs) == 1

\* lines 85-90: time.sleep(1) is reached unless the short page took the break
PageDelay(docs) == IF LastPage(docs) THEN 0 ELSE 1

DownloadIdle ==
    /\ dpc = "idle"
    /\ outcome = "none"
    /\ existing_count = 0
    /\ offset = 0
    /\ total_imported = 0
    /\ retry_count = 0
    /\ success = FALSE
    /\ results = <<>>
    /\ slept = 0
    /\ download_runs = 0
    /\ first_request = -1
    /\ stored_at_stop = 0
    /\ page_offset = 0
    /\ page_start_count = 0
    /\ attempts = 0
    /\ insert_errors = 0
    /\ stray_docs = 0
    /\ insert_calls = 0
    /\ run_failures = 0

\* lines 15-54: count what is stored, ask whether to continue, set the
\* starting offset
DownloadStart ==
    /\ dpc \in {"idle", "stopped"}
    /\ download_runs < MaxDownloadRuns
    /\ download_runs' = download_runs + 1
    /\ existing_count' = Len(complaints_2024)
    /\ \E response \in {"yes", "no"} :
          IF Len(complaints_2024) > 0 /\ response # "yes"
          THEN /\ dpc' = "stopped"
               /\ outcome' = "declined"
               /\ UNCHANGED <<offset, total_imported>>
          ELSE /\ dpc' = "page"
               /\ UNCHANGED outcome
               /\ offset' = StartOffset(Len(complaints_2024))
               /\ total_imported' = Len(complaints_2024)
    /\ retry_count' = 0
    /\ success' = FALSE
    /\ results' = <<>>
    /\ slept' = 0
    /\ first_request' = -1
    /\ page_offset' = 0
    /\ page_start_count' = 0
    /\ attempts' = 0
    /\ insert_errors' = 0
    /\ insert_calls' = 0
    /\ run_failures' = 0
    /\ UNCHANGED <<complaints_2024, cleanVars, remote, stored_at_stop, stray_docs>>

\* mutation of NewPage: retry_count is not set back for the new page
NewPageKeepsCount ==
    /\ dpc = "page"
    /\ success' = FALSE
    /\ dpc' = "attempt"
    /\ slept' = 0
    /\ page_offset' = offset
    /\ page_start_count' = Len(complaints_2024)
    /\ attempts' = 0
    /\ insert_errors' = 0
    /\ insert_calls' = 0
    /\ UNCHANGED <<complaints_2024, cleanVars, remote, outcome, existing_count,
                   offset, total_imported, results, download_runs, first_request,
                   stored_at_stop, stray_docs, run_failures, retry_count>>

\* lines 56-58: top of the outer loop
NewPage ==
    /\ dpc = "page"
    /\ retry_count' = 0
    /\ success' = FALSE
    /\ dpc' = "attempt"
    /\ slept' = 0
    /\ page_offset' = offset
    /\ page_start_count' = Len(complaints_2024)
    /\ attempts' = 0
    /\ insert_errors' = 0
    /\ insert_calls' = 0
    /\ UNCHANGED <<complaints_2024, cleanVars, remote, outcome, existing_count,
                   offset, total_imported, results, download_runs, first_request,
                   stored_at_stop, stray_docs, run_failures>>

\* the request of lines 64-71 is made
Requested ==
    /\ attempts' = attempts + 1
    /\ first_request' = IF first_request = -1 THEN offset ELSE first_request

\* lines 92-107: the except branch, then the loop tests
Failed(stored) ==
    /\ retry_count' = retry_count + 1
    /\ run_failures' = run_failures + 1
    /\ UNCHANGED <<offset, total_imported, success>>
    /\ IF retry_count + 1 < max_retries
       THEN /\ slept' = WaitTime(retry_count + 1)
            /\ UNCHANGED <<dpc, outcome, stored_at_stop>>
       ELSE /\ slept' = 0
            /\ dpc' = "stopped"
            /\ outcome' = "exhausted"
            /\ stored_at_stop' = stored

\* lines 60-71, 92-107: client_api.get raises
FetchError ==
    /\ dpc = "attempt"
    /\ Requested
    /\ Failed(Len(complaints_2024))
    /\ UNCHANGED <<complaints_2024, cleanVars, remote, existing_count, results,
                   download_runs, page_offset, page_start_count, insert_errors,
                   stray_docs, insert_calls>>

\* lines 60-76, 106-128: the page is empty; the run ends
FetchEmpty ==
    /\ dpc = "attempt"
    /\ FetchPage(remote, offset, batch_size) = <<>>
    /\ Requested
    /\ results' = <<>>
    /\ success' = TRUE
    /\ slept' = 0
    /\ dpc' = "stopped"
    /\ outcome' = "complete"
    /\ stored_at_stop' = Len(complaints_2024)
    /\ UNCHANGED <<complaints_2024, cleanVars, remote, existing_count, offset,
                   total_imported, retry_count, download_runs, page_offset,
                   page_start_count, insert_errors, stray_docs, insert_calls,
                   run_failures>>

\* lines 60-90, 106-110: the page is fetched and stored; a short page ends
\* the run, a full one is followed by time.sleep(1) and the next page
IngestPage ==
    /\ dpc = "attempt"
    /\ FetchPage(remote, offset, batch_size) # <<>>
    /\ Requested
    /\ LET page == FetchPage(remote, offset, batch_size)
       IN  /\ results' = page
           /\ complaints_2024' = InsertedAll(complaints_2024, page)
           /\ total_imported' = Advance(total_imported, page)
           /\ offset' = Advance(offset, page)
           /\ success' = TRUE
           /\ slept' = PageDelay(page)
           /\ IF LastPage(page)
              THEN /\ dpc' = "stopped"
                   /\ outcome' = "complete"
                   /\ stored_at_stop' = Len(complaints_2024')
              ELSE /\ dpc' = "page"
                   /\ UNCHANGED <<outcome, stored_at_stop>>
    /\ insert_calls' = insert_calls + 1
    /\ UNCHANGED <<cleanVars, remote, existing_count, retry_count, download_runs,
                   page_offset, page_start_count, insert_errors, stray_docs,
                   run_failures>>

\* lines 60-79, 92-107: the page is fetched and insert_many raises after
\* storing k of its documents
InsertError ==
    /\ dpc = "attempt"
    /\ FetchPage(remote, offset, batch_size) # <<>>
    /\ Requested
    /\ LET page == FetchPage(remote, offset, batch_size)
       IN  /\ results' = page
           /\ \E k \in 0..Len(page) :
                 /\ stray_docs + k <= MaxStrayDocs
                 /\ stray_docs' = stray_docs + k
                 /\ complaints_2024' = InsertedSome(complaints_2024, page, k)
                 /\ Failed(Len(complaints_2024) + k)
    /\ insert_errors' = insert_errors + 1
    /\ insert_calls' = insert_calls + 1
    /\ UNCHANGED <<cleanVars, remote, existing_count, download_runs, page_offset,
                   page_start_count>>

\* the process is terminated while the run is under way
Kill ==
    /\ dpc \in {"page", "attempt"}
    /\ dpc' = "stopped"
    /\ outcome' = "killed"
    /\ stored_at_stop' = Len(complaints_2024)
    /\ UNCHANGED <<complaints_2024, cleanVars, remote, existing_count, offset,
                   total_imported, retry_count, success, results, slept,
                   download_runs, first_request, page_offset, page_start_count,
                   attempts, insert_errors, stray_docs, insert_calls, run_failures>>

(***************************************************************************)
(* Specification of the download: any remote dataset, an empty raw         *)
(* collection, runs that end, fail or are terminated and are started again *)
(***************************************************************************)
InitDownload ==
    /\ remote \in {RemoteData(n) : n \in 0..MaxRemote}
    /\ complaints_2024 = <<>>
    /\ complaints_2024_clean = <<>>
    /\ clean_unique_index = FALSE
    /\ CleanIdle
    /\ DownloadIdle

NextDownload ==
    \/ DownloadStart
    \/ NewPage
    \/ FetchError
    \/ FetchEmpty
    \/ IngestPage
    \/ InsertError
    \/ Kill

SpecDownload == InitDownload /\ [][NextDownload]_vars

\* the steps of a run that is under way; the interpreter takes the next one
\* as long as the process lives
RunStep ==
    \/ NewPage
    \/ FetchError
    \/ FetchEmpty
    \/ IngestPage
    \/ InsertError

\* the download with a run that keeps going: starting a run and terminating
\* the process stay up to the operator
SpecDownloadLive == SpecDownload /\ WF_vars(RunStep)

InitClean ==
    /\ complaints_2024 \in RawCollections
    /\ \E e \in EarlierCleanStates :
          /\ complaints_2024_clean = e.coll
          /\ clean_unique_index = e.unique
    /\ CleanIdle
    /\ remote = <<>>
    /\ DownloadIdle

NextClean ==
    \/ CleanStart
    \/ CleanRecord
    \/ CleanFlushRest
    \/ CleanCreateIndexes
    \/ CleanSummary

SpecClean == InitClean /\ [][NextClean]_vars

(***************************************************************************)
(* Properties of the clean pass                                            *)
(***************************************************************************)
\* the buffer is pending while the loop runs; line 106 writes it out and
\* leaves the list as it is
Pending == IF cpc = "scan" THEN records_to_insert ELSE <<>>

\* documents accepted so far: written or waiting in the buffer
Accepted == complaints_2024_clean \o Pending

\* the pass has read every record and counted the result (line 108)
PassOver == cpc \in {"index", "summary", "done"} \/ error = "ZeroDivisionError"

\* the iteration of the loop that the next CleanRecord step runs
NextRecord == complaints_2024[processed + 1]

\* the number of the four tallies that a step raises by one
TalliesRaised ==
    (IF Len(Accepted') = Len(Accepted) + 1 THEN 1 ELSE 0)
    + (IF skipped_missing' = skipped_missing + 1 THEN 1 ELSE 0)
    + (IF skipped_invalid_coords' = skipped_invalid_coords + 1 THEN 1 ELSE 0)
    + (IF skipped_duplicate' = skipped_duplicate + 1 THEN 1 ELSE 0)

TalliesKept ==
    (IF Len(Accepted') = Len(Accepted) THEN 1 ELSE 0)
    + (IF skipped_missing' = skipped_missing THEN 1 ELSE 0)
    + (IF skipped_invalid_coords' = skipped_invalid_coords THEN 1 ELSE 0)
    + (IF skipped_duplicate' = skipped_duplicate THEN 1 ELSE 0)

\* C1: conservation law.  After the full pass every raw record was examined
\* and processed = accepted + skipped_missing + skipped_invalid_coords +
\* skipped_duplicate, accepted being the size of the clean collection; and
\* each examined record raises exactly one of the four tallies by one and
\* leaves the other three alone.
C1_Conservation ==
    /\ [](PassOver =>
            /\ processed = Len(complaints_2024)
            /\ final_count = Len(complaints_2024_clean)
            /\ processed = final_count + skipped_missing
                           + skipped_invalid_coords + skipped_duplicate)
    /\ [][processed' = processed + 1 =>
            TalliesRaised = 1 /\ TalliesKept = 3]_vars

\* a pass is over in which a record was accepted, one was rejected as
\* missing and one as a duplicate
C1_Witness ==
    /\ cpc = "done"
    /\ final_count > 0
    /\ skipped_missing > 0
    /\ skipped_duplicate > 0

\* C2: uniqueness.  From the moment a pass has cleared the clean collection,
\* during the pass and after it, no two documents of the clean collection
\* and the insert buffer together share a cmplnt_num.
C2_Uniqueness ==
    clean_runs >= 1 => ~DuplicateKeys(Accepted)

\* a pass is over whose raw collection held the same identifier three times
C2_Witness ==
    /\ cpc = "done"
    /\ skipped_duplicate >= 2
    /\ Len(complaints_2024_clean) = 1

\* C3: idempotence.  Every pass over the unchanged raw collection leaves the
\* same clean collection and the same counters as the pass before it,
\* whatever the clean collection held at first, and no pass is ended by the
\* store rejecting a record.
C3_Idempotence ==
    /\ \A i, j \in DOMAIN pass_results : pass_results[i] = pass_results[j]
    /\ error \in {"none", "ZeroDivisionError"}
    /\ Len(pass_results) <= clean_runs
    /\ cpc \in {"summary", "done"} => Len(pass_results) = clean_runs

\* the second pass is over; it ran with the unique index of the first in
\* place, wrote a full batch during the scan and rejected a record
C3_Witness ==
    /\ cpc = "done"
    /\ Len(pass_results) = 2
    /\ clean_unique_index
    /\ final_count >= FlushSize
    /\ skipped_missing + skipped_invalid_coords + skipped_duplicate > 0

\* the claim's box, 40.4 <= latitude <= 41.0 and -74.4 <= longitude <= -73.6
InClaimedBox(doc) ==
    /\ doc.latitude.t = "num"
    /\ doc.longitude.t = "num"
    /\ 404 * Scale <= 10 * doc.latitude.n
    /\ 10 * doc.latitude.n <= 410 * Scale
    /\ 0 - 744 * Scale <= 10 * doc.longitude.n
    /\ 10 * doc.longitude.n <= 0 - 736 * Scale

\* the record's coordinates do not parse, or parse to a pair outside the box
BadCoordinates(record) ==
    LET lat == ParseFloat(record.latitude)
        lon == ParseFloat(record.longitude)
    IN  \/ ~lat.ok
        \/ ~lon.ok
        \/ ~InClaimedBox([latitude |-> FloatValue(lat), longitude |-> FloatValue(lon)])

\* C4: coordinate bound.  Every accepted document holds latitude and
\* longitude as numbers inside the box; a record whose coordinates do not
\* parse or lie outside the box is never accepted, and is counted as
\* invalid_coordinates when it passed the missing and the duplicate check.
C4_CoordinateBound ==
    /\ [](clean_runs >= 1 => \A i \in 1..Len(Accepted) : InClaimedBox(Accepted[i]))
    /\ [][(processed' = processed + 1 /\ BadCoordinates(NextRecord)) =>
            /\ Accepted' = Accepted
            /\ (/\ ~MissingKeyFields(NextRecord)
                /\ ~NullBorough(NextRecord)
                /\ ~DuplicateId(NextRecord, seen_ids))
               => skipped_invalid_coords' = skipped_invalid_coords + 1]_vars

\* a pass is over that accepted a record and rejected one whose only fault
\* is a latitude outside the box
C4_Witness ==
    /\ cpc = "done"
    /\ skipped_invalid_coords = 1
    /\ final_count = 1
    /\ \E i \in 1..Len(complaints_2024) :
          /\ complaints_2024[i].latitude = BadLat
          /\ ~MissingKeyFields(complaints_2024[i])
          /\ ~NullBorough(complaints_2024[i])

\* only the named tally moves, by one
OnlyMissing ==
    /\ skipped_missing' = skipped_missing + 1
    /\ UNCHANGED <<skipped_duplicate, skipped_invalid_coords>>
    /\ Accepted' = Accepted

OnlyDuplicate ==
    /\ skipped_duplicate' = skipped_duplicate + 1
    /\ UNCHANGED <<skipped_missing, skipped_invalid_coords>>
    /\ Accepted' = Accepted

OnlyInvalidCoords ==
    /\ skipped_invalid_coords' = skipped_invalid_coords + 1
    /\ UNCHANGED <<skipped_missing, skipped_duplicate>>
    /\ Accepted' = Accepted

\* C9: first matching rule.  A record that fails the missing-field check is
\* counted as missing only, whatever its identifier and coordinates; one
\* that passes it with a seen identifier is counted as duplicate only,
\* whatever its coordinates; one that passes both with bad coordinates is
\* counted as invalid_coordinates only.
C9_FirstMatchingRule ==
    [][processed' = processed + 1 =>
         IF MissingKeyFields(NextRecord) \/ NullBorough(NextRecord)
         THEN OnlyMissing
         ELSE IF NextRecord.cmplnt_num \in seen_ids
         THEN OnlyDuplicate
         ELSE BadCoordinates(NextRecord) => OnlyInvalidCoords]_vars

\* the second record carries the borough sentinel, the identifier of the
\* first and a latitude outside the box, and was counted as missing
C9_Witness ==
    /\ processed = 2
    /\ skipped_missing = 1
    /\ skipped_duplicate = 0
    /\ skipped_invalid_coords = 0
    /\ NullBorough(complaints_2024[2])
    /\ complaints_2024[2].cmplnt_num \in seen_ids
    /\ BadCoordinates(complaints_2024[2])

\* the field is absent or the empty text
AbsentOrEmpty(val) == val.t = "absent" \/ (val.t = "str" /\ val.v = <<>>)

\* one of the seven fields is absent or empty, or the borough is "(null)"
LacksField(doc) ==
    \/ AbsentOrEmpty(doc.cmplnt_num)
    \/ AbsentOrEmpty(doc.cmplnt_fr_dt)
    \/ AbsentOrEmpty(doc.boro_nm)
    \/ AbsentOrEmpty(doc.latitude)
    \/ AbsentOrEmpty(doc.longitude)
    \/ AbsentOrEmpty(doc.ofns_desc)
    \/ AbsentOrEmpty(doc.law_cat_cd)
    \/ doc.boro_nm = Str(<<"(", "n", "u", "l", "l", ")">>)

\* C10: missing-field rejection.  A record that lacks one of the seven
\* fields, or whose borough is "(null)" or empty, is rejected as missing
\* whatever its other fields; so no accepted document lacks a field.
C10_MissingRejected ==
    /\ [](clean_runs >= 1 => \A i \in 1..Len(Accepted) : ~LacksField(Accepted[i]))
    /\ [][(processed' = processed + 1 /\ LacksField(NextRecord)) => OnlyMissing]_vars

\* a record whose only fault is the borough "(null)" was rejected as
\* missing, next to an accepted one
C10_Witness ==
    /\ cpc = "done"
    /\ final_count = 1
    /\ skipped_missing = 1
    /\ \E i \in 1..Len(complaints_2024) :
          /\ complaints_2024[i].boro_nm = NullBoro
          /\ ~MissingKeyFields(complaints_2024[i])
          /\ ~BadCoordinates(complaints_2024[i])
          /\ ~HasKey(complaints_2024_clean, complaints_2024[i].cmplnt_num)

\* C11: empty raw collection.  A pass over a raw collection without records
\* runs to its end and no exception ends it: the summary leaves the
\* percentages out instead of dividing by the record count.
C11_EmptyRawCompletes ==
    (clean_runs >= 1 /\ complaints_2024 = <<>>) =>
        /\ error = "none"
        /\ cpc # "failed"

(***************************************************************************)
(* Properties of the download                                              *)
(***************************************************************************)
RunActive == dpc \in {"page", "attempt"}

\* the page the next request of the run returns
NextPage == FetchPage(remote, offset, batch_size)

Occurrences(coll, doc) == Cardinality({i \in 1..Len(coll) : coll[i] = doc})

\* C5: resumption.  A run started after an earlier one stopped with N
\* documents stored makes its first request at offset N, never requests an
\* offset below N, and the pages it requests hold none of the N documents
\* that were stored when it started.
C5_Resumption ==
    (RunActive /\ download_runs >= 2) =>
        /\ offset >= stored_at_stop
        /\ first_request \in {-1, stored_at_stop}
        /\ attempts > 0 => first_request = stored_at_stop
        /\ \A i \in 1..stored_at_stop : \A j \in 1..Len(NextPage) :
              complaints_2024[i] # NextPage[j]

\* a run resumed after a run that was terminated or ran out of retries; it
\* started at the stored count and has moved past it
C5_Witness ==
    /\ RunActive
    /\ download_runs >= 2
    /\ outcome \in {"exhausted", "killed"}
    /\ stored_at_stop > 0
    /\ first_request = stored_at_stop
    /\ offset > first_request

\* C6: exactly-once ingest under fetch retries.  While only fetches have
\* failed at an offset nothing is stored and the offset stays; when the
\* fetch then succeeds with a non-empty page, after at most 4 failures, the
\* page is appended once, each of its documents is stored exactly once and
\* the offset has advanced by the length of the page.
C6_ExactlyOnce ==
    (attempts > 0 /\ insert_errors = 0) =>
        /\ ~success =>
              /\ Len(complaints_2024) = page_start_count
              /\ offset = page_offset
        /\ (success /\ results # <<>>) =>
              /\ retry_count <= max_retries - 1
              /\ results = FetchPage(remote, page_offset, batch_size)
              /\ Len(complaints_2024) = page_start_count + Len(results)
              /\ SubSeq(complaints_2024, page_start_count + 1, Len(complaints_2024))
                 = results
              /\ \A j \in 1..Len(results) :
                    Occurrences(complaints_2024, results[j]) = 1
              /\ offset = page_offset + Len(results)

\* the fetch failed four times and the fifth attempt stored the page
C6_Witness ==
    /\ success
    /\ results # <<>>
    /\ insert_errors = 0
    /\ retry_count = max_retries - 1
    /\ attempts = max_retries

\* C7: retry cap and stop.  At most 5 requests are made at one offset; while
\* attempts fail, offset and total_imported stay what they were when the
\* page was started; after the 5th failure the run has stopped, and the
\* resume offset it reports is the offset of the failed page and the number
\* of documents then stored.
C7_RetryCapAndStop ==
    /\ attempts <= max_retries
    /\ (attempts > 0 /\ ~success) =>
          /\ offset = page_offset
          /\ total_imported = page_offset
    /\ retry_count = max_retries =>
          /\ dpc = "stopped"
          /\ outcome = "exhausted"
    /\ (dpc = "stopped" /\ outcome = "exhausted") =>
          /\ offset = page_offset
          /\ offset = Len(complaints_2024)

\* C8: storage write failure is all-or-nothing.  After insert_many failed on
\* a page none of the page is stored; the failures count toward the 5
\* attempts at the unchanged offset; and once the page is stored the
\* collection has grown by exactly the page, each document stored once.
C8_AllOrNothing ==
    (attempts > 0 /\ insert_errors > 0) =>
        /\ insert_errors <= retry_count
        /\ attempts <= max_retries
        /\ ~success =>
              /\ Len(complaints_2024) = page_start_count
              /\ offset = page_offset
        /\ (success /\ results # <<>>) =>
              /\ Len(complaints_2024) = page_start_count + Len(results)
              /\ \A j \in 1..Len(results) :
                    Occurrences(complaints_2024, results[j]) = 1

\* what is left of the remote dataset past the offset of the run
Remaining == IF Len(remote) > offset THEN Len(remote) - offset ELSE 0

\* a measure of the work a run can still do: pages left, then attempts left
\* for the current page
Rank ==
    Remaining * (max_retries + 2)
        + (IF dpc = "page" THEN max_retries + 1 ELSE max_retries - retry_count)

IsPrefix(s, t) == Len(s) <= Len(t) /\ SubSeq(t, 1, Len(s)) = s

\* a step of the run under way: the same run before and after
RunContinues == RunActive /\ RunActive' /\ download_runs' = download_runs

\* C12: termination of a download run.  Whatever the remote dataset and the
\* failures of requests and writes, a run under way leaves its loop: every
\* step it takes lowers the work left, a run that ends by itself ends on a
\* short or empty page or on the fifth failed attempt at one offset, and the
\* documents stored before the stop stay in the raw collection.
C12_Termination ==
    /\ RunActive ~> dpc = "stopped"
    /\ [][RunContinues => Rank' < Rank /\ Rank' >= 0]_vars
    /\ [][IsPrefix(complaints_2024, complaints_2024')]_vars
    /\ [](dpc = "stopped" /\ outcome = "complete" =>
              success /\ LastPage(results))
    /\ [](dpc = "stopped" /\ outcome = "exhausted" =>
              /\ ~success
              /\ retry_count = max_retries
              /\ attempts = max_retries
              /\ offset = page_offset)
    /\ [](dpc = "stopped" =>
              /\ outcome \in {"complete", "exhausted", "killed", "declined"}
              /\ stored_at_stop = Len(complaints_2024))

\* a run that met failures on its way ended by itself after several pages
C12_Witness ==
    /\ dpc = "stopped"
    /\ outcome \in {"complete", "exhausted"}
    /\ run_failures >= 2
    /\ offset >= existing_count + 2 * batch_size
    /\ Len(complaints_2024) >= offset

\* an attempt of the run: the request of lines 64-71 is made in this step
AttemptStep == dpc = "attempt" /\ attempts' = attempts + 1

\* C13: end of data.  A page shorter than batch_size that holds a document
\* is stored and then ends the run with success; an empty page ends the run
\* with success and insert_many is not called for it; insert_many is never
\* called with an empty page; once the run has ended it makes no request and
\* stores nothing, and its outcome is no failure.
C13_EndOfData ==
    /\ [][AttemptStep /\ success' =>
              /\ results' = NextPage
              /\ Len(NextPage) < batch_size =>
                    /\ dpc' = "stopped"
                    /\ outcome' = "complete"
              /\ NextPage # <<>> =>
                    /\ complaints_2024' = complaints_2024 \o NextPage
                    /\ insert_calls' = insert_calls + 1
              /\ NextPage = <<>> =>
                    /\ complaints_2024' = complaints_2024
                    /\ insert_calls' = insert_calls]_vars
    /\ [][insert_calls' = insert_calls + 1 =>
              AttemptStep /\ results' # <<>> /\ NextPage # <<>>]_vars
    /\ [][dpc = "stopped" /\ download_runs' = download_runs =>
              /\ attempts' = attempts
              /\ complaints_2024' = complaints_2024
              /\ outcome' = outcome]_vars

\* a run resumed after a short page was stored, and ended on an empty page
C13_Witness ==
    /\ dpc = "stopped"
    /\ outcome = "complete"
    /\ success
    /\ results = <<>>
    /\ insert_calls = 0
    /\ attempts >= 1
    /\ stray_docs = 0
    /\ Len(complaints_2024) % batch_size = 1

(***************************************************************************)
(* Properties of the cleaning pass, continued                              *)
(***************************************************************************)
\* the identifiers of the documents of a collection
IdsOf(coll) == {coll[i].cmplnt_num : i \in 1..Len(coll)}

\* the record passes the missing-field check (lines 54 and 59)
PassesMissing(record) == ~MissingKeyFields(record) /\ ~NullBorough(record)

\* the record passes the missing-field check and the coordinate check
PassesChecks(record) == PassesMissing(record) /\ ~BadCoordinates(record)

\* a record before the next one carries its identifier and passes the checks
EarlierValid ==
    \E j \in 1..processed :
        /\ complaints_2024[j].cmplnt_num = NextRecord.cmplnt_num
        /\ PassesChecks(complaints_2024[j])

\* the step accepts the next record
AcceptsNext ==
    /\ Len(Accepted') = Len(Accepted) + 1
    /\ Accepted'[Len(Accepted')].cmplnt_num = NextRecord.cmplnt_num
    /\ UNCHANGED <<skipped_missing, skipped_duplicate, skipped_invalid_coords>>

\* C14: seen-set and first valid occurrence.  During the pass seen_ids is
\* the set of identifiers of the records accepted so far.  Of the records
\* with one identifier, the first that passes the missing-field and the
\* coordinate check is accepted; each later one that passes the
\* missing-field check is rejected as duplicate; an earlier rejected record
\* with the identifier does not make a later valid one a duplicate.
C14_SeenSet ==
    /\ [](cpc = "scan" => seen_ids = IdsOf(Accepted))
    /\ [][processed' = processed + 1 /\ PassesMissing(NextRecord) =>
              IF EarlierValid THEN OnlyDuplicate
              ELSE IF BadCoordinates(NextRecord) THEN OnlyInvalidCoords
              ELSE AcceptsNext]_vars

\* three records with one identifier: the first fails the coordinate check,
\* the second is accepted, the third is a duplicate
C14_Witness ==
    /\ cpc = "done"
    /\ Len(complaints_2024) = 3
    /\ \A i \in 1..3 : complaints_2024[i].cmplnt_num = complaints_2024[1].cmplnt_num
    /\ PassesMissing(complaints_2024[1]) /\ BadCoordinates(complaints_2024[1])
    /\ PassesChecks(complaints_2024[2])
    /\ PassesChecks(complaints_2024[3])
    /\ skipped_invalid_coords = 1
    /\ skipped_duplicate = 1
    /\ final_count = 1
    /\ IdsOf(complaints_2024_clean) = seen_ids

\* record j of the raw collection is the first with its identifier to pass
\* the checks
FirstValid(j) ==
    /\ PassesChecks(complaints_2024[j])
    /\ \A k \in 1..(j - 1) :
          ~(/\ complaints_2024[k].cmplnt_num = complaints_2024[j].cmplnt_num
            /\ PassesChecks(complaints_2024[k]))

\* the records accepted among the first n of the raw collection
AcceptedAmong(n) == {j \in 1..n : FirstValid(j)}

\* insert_many calls that n accepted records take
FlushesFor(n) == (n \div FlushSize) + (IF n % FlushSize > 0 THEN 1 ELSE 0)

\* C15: batched flush.  After each iteration the buffer holds fewer than
\* FlushSize records and clean collection plus buffer hold as many records
\* as were accepted; a flush inside the loop writes exactly FlushSize
\* records; the rest is written once after the loop, and only when there is
\* one; after the pass every accepted record is in the clean collection
\* exactly once.
C15_BatchedFlush ==
    /\ [](cpc = "scan" =>
              /\ Len(records_to_insert) < FlushSize
              /\ Len(complaints_2024_clean) + Len(records_to_insert)
                     = Cardinality(AcceptedAmong(processed))
              /\ flushes * FlushSize = Len(complaints_2024_clean))
    /\ [][cpc = "scan" /\ processed' = processed + 1
              /\ complaints_2024_clean' # complaints_2024_clean =>
              /\ Len(complaints_2024_clean') = Len(complaints_2024_clean) + FlushSize
              /\ records_to_insert' = <<>>
              /\ flushes' = flushes + 1]_vars
    /\ [][cpc = "scan" /\ cpc' = "index" =>
              /\ complaints_2024_clean' = complaints_2024_clean \o records_to_insert
              /\ flushes' = flushes + (IF records_to_insert = <<>> THEN 0 ELSE 1)]_vars
    /\ [](PassOver =>
              /\ flushes = FlushesFor(Cardinality(AcceptedAmong(Len(complaints_2024))))
              /\ Len(complaints_2024_clean)
                     = Cardinality(AcceptedAmong(Len(complaints_2024)))
              /\ \A j \in AcceptedAmong(Len(complaints_2024)) :
                     Cardinality({i \in 1..Len(complaints_2024_clean) :
                         complaints_2024_clean[i].cmplnt_num
                             = complaints_2024[j].cmplnt_num}) = 1)

\* a pass that accepted one record more than a batch: one flush in the loop,
\* one after it
C15_Witness ==
    /\ cpc = "done"
    /\ final_count = FlushSize + 1
    /\ flushes = 2
    /\ Len(complaints_2024_clean) = FlushSize + 1

(***************************************************************************)
(* Properties of the download, continued                                   *)
(***************************************************************************)
\* a failed attempt: the except branch of line 92 runs in this step
FailedStep == AttemptStep /\ retry_count' = retry_count + 1

\* C16: backoff schedule.  After the k-th failed attempt at an offset, k
\* from 1 to 4, the run waits 5 k time units and makes its next attempt at
\* the same offset; after the fifth it neither waits nor tries again.
C16_Backoff ==
    /\ [][FailedStep =>
              /\ retry_count' \in 1..5
              /\ offset' = offset
              /\ retry_count' = attempts'
              /\ IF retry_count' <= 4
                 THEN /\ slept' = 5 * retry_count'
                      /\ dpc' = "attempt"
                 ELSE /\ slept' = 0
                      /\ dpc' = "stopped"]_vars
    /\ [](dpc = "attempt" /\ attempts > 0 =>
              /\ offset = page_offset
              /\ retry_count = attempts
              /\ slept = 5 * attempts
              /\ attempts \in 1..4)
    /\ [][dpc = "stopped" /\ download_runs' = download_runs =>
              attempts' = attempts /\ slept' = slept]_vars

\* the fourth failure at an offset was followed by a wait of 20
C16_Witness ==
    /\ dpc = "attempt"
    /\ retry_count = 4
    /\ attempts = 4
    /\ slept = 20
    /\ offset = page_offset
    /\ offset > 0

\* C17: placement of the rate-limit delay.  A stored page of batch_size
\* documents is followed by a delay of 1 before the next request; a short
\* page, an empty page and a failed attempt are not.
C17_DelayPlacement ==
    /\ [][AttemptStep /\ success' =>
              slept' = (IF Len(NextPage) = batch_size THEN 1 ELSE 0)]_vars
    /\ [][FailedStep => slept' # 1]_vars
    /\ [](dpc = "page" /\ success =>
              /\ slept = 1
              /\ Len(results) = batch_size
              /\ attempts >= 1)
    /\ [](dpc = "stopped" /\ outcome = "complete" => slept = 0)

\* the second full page was stored and followed by the delay
C17_Witness ==
    /\ dpc = "page"
    /\ success
    /\ slept = 1
    /\ Len(results) = batch_size
    /\ offset >= existing_count + 2 * batch_size

(***************************************************************************)
(* Properties of the cleaning pass: the time field                         *)
(***************************************************************************)
\* the time the clean document of a raw record carries
TimeOf(record) ==
    IF record.cmplnt_fr_tm.t = "absent"
    THEN [t |-> "str", v |-> <<"0", "0", ":", "0", "0", ":", "0", "0">>, n |-> 0]
    ELSE record.cmplnt_fr_tm

\* C18: the time field.  A raw record without cmplnt_fr_tm that passes the
\* three checks is accepted, and its clean document carries '00:00:00'; a
\* raw record with the field keeps its value in the clean document.
C18_TimeDefault ==
    /\ [][processed' = processed + 1 /\ PassesChecks(NextRecord) /\ ~EarlierValid =>
              /\ AcceptsNext
              /\ Accepted'[Len(Accepted')].cmplnt_fr_tm = TimeOf(NextRecord)]_vars
    /\ [](PassOver =>
              \A j \in AcceptedAmong(Len(complaints_2024)) :
                  \E i \in 1..Len(complaints_2024_clean) :
                      /\ complaints_2024_clean[i].cmplnt_num
                             = complaints_2024[j].cmplnt_num
                      /\ complaints_2024_clean[i].cmplnt_fr_tm
                             = TimeOf(complaints_2024[j]))

\* a record without the time was accepted next to one that has it
C18_Witness ==
    /\ cpc = "done"
    /\ Len(complaints_2024) = 2
    /\ Len(complaints_2024_clean) = 2
    /\ complaints_2024[1].cmplnt_fr_tm.t = "str"
    /\ complaints_2024_clean[1].cmplnt_fr_tm = complaints_2024[1].cmplnt_fr_tm
    /\ complaints_2024[2].cmplnt_fr_tm.t = "absent"
    /\ complaints_2024_clean[2].cmplnt_fr_tm
           = [t |-> "str", v |-> <<"0", "0", ":", "0", "0", ":", "0", "0">>, n |-> 0]

(***************************************************************************)
(* Properties of the download: the raw collection as a whole               *)
(***************************************************************************)
\* C19: the raw collection is a prefix of the remote dataset.  Before every
\* request of a run the offset is the number of documents stored and is
\* total_imported, and the raw collection holds the first offset documents
\* of the remote dataset, in order, each once.
C19_GapFreePrefix ==
    dpc = "attempt" =>
        /\ offset = Len(complaints_2024)
        /\ total_imported = offset
        /\ offset <= Len(remote)
        /\ complaints_2024 = SubSeq(remote, 1, offset)

\* C20: the retry budget is per page.  retry_count is 0 when a page is
\* started, so it counts the failed attempts at the current offset alone: a
\* run gives up only after max_retries attempts at one offset, whatever
\* failed at earlier offsets, and a run whose pages each fail up to 4 times
\* before they are stored still stores the whole dataset.
C20_BudgetPerPage ==
    /\ [][dpc = "page" /\ dpc' = "attempt" => retry_count' = 0]_vars
    /\ [](dpc = "attempt" =>
              /\ retry_count = attempts
              /\ retry_count < max_retries)
    /\ [][AttemptStep /\ attempts + 1 < max_retries /\ dpc' = "stopped" =>
              outcome' = "complete"]_vars
    /\ [](dpc = "stopped" /\ outcome = "exhausted" => attempts = max_retries)
    /\ [](dpc = "stopped" /\ outcome = "complete" /\ stray_docs = 0 =>
              complaints_2024 = remote)

\* one run stored the whole dataset although more attempts failed on its
\* way than two pages' budgets
C20_Witness ==
    /\ dpc = "stopped"
    /\ outcome = "complete"
    /\ download_runs = 1
    /\ complaints_2024 = remote
    /\ Len(remote) = MaxRemote
    /\ run_failures > 2 * max_retries

=============================================================================
